---- MODULE Spec2Model ----
(***************************************************************************)
(* The WGAN architectures of model/WGAN.py: DeconvBlock, conv_block,       *)
(* Discriminator and Generator.                                            *)
(*                                                                         *)
(* A tensor is modelled by its shape [N, C, H, W], the interval its values *)
(* lie in, and the trace of the layers that produced it.  The entries of   *)
(* the grid the discriminator reduces are modelled as integers, and the    *)
(* score as an exact fraction.  A behaviour follows one module instance:   *)
(* Init is the instance right after its constructor returned, and each     *)
(* step is one call of its forward method.                                 *)
(***************************************************************************)
EXTENDS Integers, Sequences, FiniteSets, TLC

VARIABLES
    args,   \* the arguments the constructor was called with
    self,   \* the instance it built
    input,  \* the tensor the caller passes to forward
    calls,  \* the number of forward calls made
    out     \* what the last forward call returned

vars == <<args, self, input, calls, out>>

----------------------------------------------------------------------------
(* Bounds of the model *)

MaxKs == 4
MaxNz == 2
MaxWidth == 2
MaxBatch == 2
MaxCalls == 2

(* Program constants *)

DefaultNc == 3
None == -1

ImSizes == {32, 64, 128}
Channels == {1, DefaultNc}

----------------------------------------------------------------------------
(* Tensors *)

Reals == "(-inf,inf)"
NonNeg == "[0,inf)"
Unit == "[-1,1]"
UnitNonNeg == "[0,1]"

Tensor(shape, range) ==
    [ok |-> TRUE, shape |-> shape, range |-> range, trace |-> <<>>]

NoTensor == [ok |-> FALSE, shape |-> <<>>, range |-> Reals, trace |-> <<>>]

\* the result of a layer: the new shape and range, the layer added to the trace
Step(x, op, shape, range) ==
    [ok |-> TRUE, shape |-> shape, range |-> range,
     trace |-> Append(x.trace, [op |-> op, shape |-> shape])]

\* the layer raised: no tensor is returned
Raise(x, op) ==
    [ok |-> FALSE, shape |-> <<>>, range |-> Reals,
     trace |-> Append(x.trace, [op |-> op, shape |-> <<>>])]

----------------------------------------------------------------------------
(* The layer primitives the file instantiates *)

ConvTranspose2d(n_in, n_out, ks, stride, pad) ==
    [kind |-> "ConvTranspose2d", n_in |-> n_in, n_out |-> n_out,
     ks |-> ks, stride |-> stride, pad |-> pad]

Conv2d(n_in, n_out, ks, stride, pad) ==
    [kind |-> "Conv2d", n_in |-> n_in, n_out |-> n_out,
     ks |-> ks, stride |-> stride, pad |-> pad]

BatchNorm2d(n) == [kind |-> "BatchNorm2d", num_features |-> n]

ReLU == [kind |-> "ReLU"]

LeakyReLU == [kind |-> "LeakyReLU"]

Tanh == [kind |-> "Tanh"]

Sequential(mods) == [kind |-> "Sequential", layers |-> mods]

\* Python truth value of a module object: nn.Module defines neither __bool__
\* nor __len__, nn.Sequential defines __len__
Truthy(m) == IF m.kind = "Sequential" THEN Len(m.layers) > 0 ELSE TRUE

\* variant: the padding is subtracted once, not on both sides
ConvTranspose2d_forward_padOnce(m, x) ==
    LET h == (x.shape[3] - 1) * m.stride - m.pad + m.ks
        w == (x.shape[4] - 1) * m.stride - m.pad + m.ks
    IN  IF x.shape[2] = m.n_in /\ h > 0 /\ w > 0
        THEN Step(x, m.kind, <<x.shape[1], m.n_out, h, w>>, Reals)
        ELSE Raise(x, m.kind)

ConvTranspose2d_forward(m, x) ==
    LET h == (x.shape[3] - 1) * m.stride - 2 * m.pad + m.ks
        w == (x.shape[4] - 1) * m.stride - 2 * m.pad + m.ks
    IN  IF x.shape[2] = m.n_in /\ h > 0 /\ w > 0
        THEN Step(x, m.kind, <<x.shape[1], m.n_out, h, w>>, Reals)
        ELSE Raise(x, m.kind)

\* variant: the output size without the final + 1
Conv2d_forward_offByOne(m, x) ==
    LET hp == x.shape[3] + 2 * m.pad
        wp == x.shape[4] + 2 * m.pad
    IN  IF x.shape[2] = m.n_in /\ hp > m.ks /\ wp > m.ks
        THEN Step(x, m.kind,
                  <<x.shape[1], m.n_out,
                    (hp - m.ks) \div m.stride,
                    (wp - m.ks) \div m.stride>>, Reals)
        ELSE Raise(x, m.kind)

Conv2d_forward(m, x) ==
    LET hp == x.shape[3] + 2 * m.pad
        wp == x.shape[4] + 2 * m.pad
    IN  IF x.shape[2] = m.n_in /\ hp >= m.ks /\ wp >= m.ks
        THEN Step(x, m.kind,
                  <<x.shape[1], m.n_out,
                    (hp - m.ks) \div m.stride + 1,
                    (wp - m.ks) \div m.stride + 1>>, Reals)
        ELSE Raise(x, m.kind)

\* the modules are in training mode, as constructed: batch statistics need
\* more than one value per channel
BatchNorm2d_forward(m, x) ==
    IF x.shape[2] = m.num_features /\ x.shape[1] * x.shape[3] * x.shape[4] > 1
    THEN Step(x, m.kind, x.shape, Reals)
    ELSE Raise(x, m.kind)

ReLU_forward(m, x) ==
    Step(x, m.kind, x.shape,
         IF x.range \in {Unit, UnitNonNeg} THEN UnitNonNeg ELSE NonNeg)

\* negative_slope=0.2: the sign is kept and no magnitude grows
LeakyReLU_forward(m, x) == Step(x, m.kind, x.shape, x.range)

Tanh_forward(m, x) ==
    Step(x, m.kind, x.shape,
         IF x.range \in {NonNeg, UnitNonNeg} THEN UnitNonNeg ELSE Unit)

LayerForward(m, x) ==
    IF ~x.ok THEN x
    ELSE CASE m.kind = "ConvTranspose2d" -> ConvTranspose2d_forward(m, x)
           [] m.kind = "Conv2d" -> Conv2d_forward(m, x)
           [] m.kind = "BatchNorm2d" -> BatchNorm2d_forward(m, x)
           [] m.kind = "ReLU" -> ReLU_forward(m, x)
           [] m.kind = "LeakyReLU" -> LeakyReLU_forward(m, x)
           [] m.kind = "Tanh" -> Tanh_forward(m, x)

----------------------------------------------------------------------------
(* DeconvBlock *)

\* __init__: the bn argument is not stored; self.bn is always the
\* BatchNorm2d module
DeconvBlock(n_in, n_out, ks, stride, pad, bn) ==
    [kind |-> "DeconvBlock",
     conv |-> ConvTranspose2d(n_in, n_out, ks, stride, pad),
     bn |-> BatchNorm2d(n_out),
     relu |-> ReLU]

DeconvBlock_forward(blk, x) ==
    LET x1 == LayerForward(blk.relu, LayerForward(blk.conv, x))
    IN  IF Truthy(blk.bn) THEN LayerForward(blk.bn, x1) ELSE x1

(* conv_block *)

\* variant: the bn flag is ignored, every stage normalizes
conv_block_alwaysBn(n_in, n_out, ks, stride, pad0, bn) ==
    LET pad == IF pad0 = None THEN (ks \div 2) \div stride ELSE pad0
    IN  Sequential(<<Conv2d(n_in, n_out, ks, stride, pad),
                     BatchNorm2d(n_out),
                     LeakyReLU>>)

conv_block(n_in, n_out, ks, stride, pad0, bn) ==
    LET pad == IF pad0 = None THEN (ks \div 2) \div stride ELSE pad0
    IN  IF bn = TRUE
        THEN Sequential(<<Conv2d(n_in, n_out, ks, stride, pad),
                          BatchNorm2d(n_out),
                          LeakyReLU>>)
        ELSE Sequential(<<Conv2d(n_in, n_out, ks, stride, pad),
                          LeakyReLU>>)

\* nn.Sequential.forward: the modules in order, each on the previous result
RECURSIVE SequentialForward(_, _)
SequentialForward(mods, x) ==
    IF mods = <<>> THEN x
    ELSE LET m == Head(mods)
             y == IF ~x.ok THEN x
                  ELSE IF m.kind = "Sequential" THEN SequentialForward(m.layers, x)
                  ELSE IF m.kind = "DeconvBlock" THEN DeconvBlock_forward(m, x)
                  ELSE LayerForward(m, x)
         IN  SequentialForward(Tail(mods), y)

----------------------------------------------------------------------------
(* Discriminator *)

\* variant: the second stage's width is a literal, not a multiple of ndf
Discriminator_fixedWidth(im_size, ks, ndf, nc, ngpu) ==
    [kind |-> "Discriminator",
     ngpu |-> ngpu,
     im_size |-> im_size,
     main64 |-> Sequential(<<
         conv_block(nc, ndf, ks, 2, 1, FALSE),
         conv_block(ndf, 4, ks, 2, 1, TRUE),
         conv_block(4, ndf*4, ks, 2, 1, TRUE),
         conv_block(ndf*4, ndf*8, ks, 2, 1, TRUE),
         Conv2d(ndf*8, 1, ks, 1, 0)>>),
     main128 |-> Sequential(<<
         conv_block(nc, ndf, ks, 2, 1, FALSE),
         conv_block(ndf, 4, ks, 2, 1, TRUE),
         conv_block(4, ndf*4, ks, 2, 1, TRUE),
         conv_block(ndf*4, ndf*8, ks, 2, 1, TRUE),
         conv_block(ndf*8, ndf*16, ks, 2, 1, TRUE),
         Conv2d(ndf*16, 1, ks, 1, 0)>>)]

\* variant: only the pipeline of the configured resolution is built
Discriminator_lazy(im_size, ks, ndf, nc, ngpu) ==
    [kind |-> "Discriminator",
     ngpu |-> ngpu,
     im_size |-> im_size,
     main64 |-> IF im_size # 64 THEN Sequential(<<>>) ELSE Sequential(<<
         conv_block(nc, ndf, ks, 2, 1, FALSE),
         conv_block(ndf, ndf*2, ks, 2, 1, TRUE),
         conv_block(ndf*2, ndf*4, ks, 2, 1, TRUE),
         conv_block(ndf*4, ndf*8, ks, 2, 1, TRUE),
         Conv2d(ndf*8, 1, ks, 1, 0)>>),
     main128 |-> IF im_size = 64 THEN Sequential(<<>>) ELSE Sequential(<<
         conv_block(nc, ndf, ks, 2, 1, FALSE),
         conv_block(ndf, ndf*2, ks, 2, 1, TRUE),
         conv_block(ndf*2, ndf*4, ks, 2, 1, TRUE),
         conv_block(ndf*4, ndf*8, ks, 2, 1, TRUE),
         conv_block(ndf*8, ndf*16, ks, 2, 1, TRUE),
         Conv2d(ndf*16, 1, ks, 1, 0)>>)]

Discriminator(im_size, ks, ndf, nc, ngpu) ==
    [kind |-> "Discriminator",
     ngpu |-> ngpu,
     im_size |-> im_size,
     main64 |-> Sequential(<<
         conv_block(nc, ndf, ks, 2, 1, FALSE),
         conv_block(ndf, ndf*2, ks, 2, 1, TRUE),
         conv_block(ndf*2, ndf*4, ks, 2, 1, TRUE),
         conv_block(ndf*4, ndf*8, ks, 2, 1, TRUE),
         Conv2d(ndf*8, 1, ks, 1, 0)>>),
     main128 |-> Sequential(<<
         conv_block(nc, ndf, ks, 2, 1, FALSE),
         conv_block(ndf, ndf*2, ks, 2, 1, TRUE),
         conv_block(ndf*2, ndf*4, ks, 2, 1, TRUE),
         conv_block(ndf*4, ndf*8, ks, 2, 1, TRUE),
         conv_block(ndf*8, ndf*16, ks, 2, 1, TRUE),
         Conv2d(ndf*16, 1, ks, 1, 0)>>)]

(* Generator *)

\* variant: main128 lacks its additional stage
Generator_shortMain128(im_size, ks, nz, ngf, nc, ngpu) ==
    [kind |-> "Generator",
     ngpu |-> ngpu,
     im_size |-> im_size,
     main64 |-> Sequential(<<
         DeconvBlock(nz, ngf*8, ks, 1, 0, TRUE),
         DeconvBlock(ngf*8, ngf*4, ks, 2, 1, TRUE),
         DeconvBlock(ngf*4, ngf*2, ks, 2, 1, TRUE),
         DeconvBlock(ngf*2, ngf, ks, 2, 1, TRUE),
         ConvTranspose2d(ngf, nc, ks, 2, 1),
         Tanh>>),
     main128 |-> Sequential(<<
         DeconvBlock(nz, ngf*8, ks, 1, 0, TRUE),
         DeconvBlock(ngf*8, ngf*4, ks, 2, 1, TRUE),
         DeconvBlock(ngf*4, ngf*2, ks, 2, 1, TRUE),
         DeconvBlock(ngf*2, ngf, ks, 2, 1, TRUE),
         ConvTranspose2d(ngf, nc, ks, 2, 1),
         Tanh>>)]

\* variant: the pipelines end in the rectifier, not in tanh
Generator_reluOutput(im_size, ks, nz, ngf, nc, ngpu) ==
    [kind |-> "Generator",
     ngpu |-> ngpu,
     im_size |-> im_size,
     main64 |-> Sequential(<<
         DeconvBlock(nz, ngf*8, ks, 1, 0, TRUE),
         DeconvBlock(ngf*8, ngf*4, ks, 2, 1, TRUE),
         DeconvBlock(ngf*4, ngf*2, ks, 2, 1, TRUE),
         DeconvBlock(ngf*2, ngf, ks, 2, 1, TRUE),
         ConvTranspose2d(ngf, nc, ks, 2, 1),
         ReLU>>),
     main128 |-> Sequential(<<
         DeconvBlock(nz, ngf*16, ks, 1, 0, TRUE),
         DeconvBlock(ngf*16, ngf*8, ks, 2, 1, TRUE),
         DeconvBlock(ngf*8, ngf*4, ks, 2, 1, TRUE),
         DeconvBlock(ngf*4, ngf*2, ks, 2, 1, TRUE),
         DeconvBlock(ngf*2, ngf, ks, 2, 1, TRUE),
         ConvTranspose2d(ngf, nc, ks, 2, 1),
         ReLU>>)]

Generator(im_size, ks, nz, ngf, nc, ngpu) ==
    [kind |-> "Generator",
     ngpu |-> ngpu,
     im_size |-> im_size,
     main64 |-> Sequential(<<
         DeconvBlock(nz, ngf*8, ks, 1, 0, TRUE),
         DeconvBlock(ngf*8, ngf*4, ks, 2, 1, TRUE),
         DeconvBlock(ngf*4, ngf*2, ks, 2, 1, TRUE),
         DeconvBlock(ngf*2, ngf, ks, 2, 1, TRUE),
         ConvTranspose2d(ngf, nc, ks, 2, 1),
         Tanh>>),
     main128 |-> Sequential(<<
         DeconvBlock(nz, ngf*16, ks, 1, 0, TRUE),
         DeconvBlock(ngf*16, ngf*8, ks, 2, 1, TRUE),
         DeconvBlock(ngf*8, ngf*4, ks, 2, 1, TRUE),
         DeconvBlock(ngf*4, ngf*2, ks, 2, 1, TRUE),
         DeconvBlock(ngf*2, ngf, ks, 2, 1, TRUE),
         ConvTranspose2d(ngf, nc, ks, 2, 1),
         Tanh>>)]

\* variant: the branch tests for 128, so every other value selects main64
Generator_forward_test128(g, x) ==
    IF g.im_size = 128
    THEN [executed |-> "main128", y |-> SequentialForward(g.main128.layers, x)]
    ELSE [executed |-> "main64", y |-> SequentialForward(g.main64.layers, x)]

Generator_forward(g, x) ==
    IF g.im_size = 64
    THEN [executed |-> "main64", y |-> SequentialForward(g.main64.layers, x)]
    ELSE [executed |-> "main128", y |-> SequentialForward(g.main128.layers, x)]

----------------------------------------------------------------------------
(* The discriminator's reduction: .mean(0).view(1) *)

Index4(s) == (1..s[1]) \X (1..s[2]) \X (1..s[3]) \X (1..s[4])

Index3(s) == (1..s[1]) \X (1..s[2]) \X (1..s[3])

RECURSIVE Numel(_)
Numel(s) == IF s = <<>> THEN 1 ELSE Head(s) * Numel(Tail(s))

\* the entries of the grid the pipeline returned; they depend on the learned
\* weights, which the file does not fix: coef stands for them
Entries(t, coef) ==
    [ok |-> t.ok, shape |-> t.shape,
     val |-> IF t.ok
             THEN [p \in Index4(t.shape) |->
                      coef[1] * p[1] + coef[2] * (p[3] + 2 * p[4])]
             ELSE <<>>]

RECURSIVE SumDim0(_, _, _)
SumDim0(val, q, n) ==
    IF n = 0 THEN 0 ELSE val[<<n, q[1], q[2], q[3]>>] + SumDim0(val, q, n - 1)

\* variant: the sum over the first dimension, not divided by its size
Mean0_sum(g) ==
    [ok |-> g.ok,
     shape |-> IF g.ok THEN Tail(g.shape) ELSE <<>>,
     val |-> IF g.ok
             THEN [q \in Index3(Tail(g.shape)) |->
                      [num |-> SumDim0(g.val, q, g.shape[1]), den |-> 1]]
             ELSE <<>>]

\* tensor.mean(0): the mean over the first dimension, which is dropped
Mean0(g) ==
    [ok |-> g.ok,
     shape |-> IF g.ok THEN Tail(g.shape) ELSE <<>>,
     val |-> IF g.ok
             THEN [q \in Index3(Tail(g.shape)) |->
                      [num |-> SumDim0(g.val, q, g.shape[1]), den |-> g.shape[1]]]
             ELSE <<>>]

\* tensor.view(1): the same entries as shape [1]; raises unless there is one
View1(m) ==
    IF m.ok /\ Numel(m.shape) = 1
    THEN [ok |-> TRUE, shape |-> <<1>>, val |-> <<m.val[<<1, 1, 1>>]>>]
    ELSE [ok |-> FALSE, shape |-> <<>>, val |-> <<>>]

Discriminator_forward(d, x, coef) ==
    LET name == IF d.im_size = 64 THEN "main64" ELSE "main128"
        t == IF d.im_size = 64
             THEN SequentialForward(d.main64.layers, x)
             ELSE SequentialForward(d.main128.layers, x)
        g == Entries(t, coef)
        m == Mean0(g)
        v == View1(m)
        tm == IF t.ok THEN Step(t, "mean", m.shape, Reals) ELSE t
        tv == IF ~t.ok THEN t
              ELSE IF v.ok THEN Step(tm, "view", v.shape, Reals)
              ELSE Raise(tm, "view")
    IN  [executed |-> name, y |-> tv, grid |-> g, score |-> v]

----------------------------------------------------------------------------
(* The instances a behaviour can follow, and the inputs of forward *)

GeneratorArgs ==
    [im_size : ImSizes, ks : 1..MaxKs, nz : 1..MaxNz, ngf : 1..MaxWidth,
     nc : Channels, ngpu : {1, 2}]

DiscriminatorArgs ==
    [im_size : ImSizes, ks : 1..MaxKs, ndf : 1..MaxWidth,
     nc : Channels, ngpu : {1, 2}]

DeconvBlockArgs ==
    [n_in : 1..MaxNz, n_out : 1..MaxWidth, ks : 1..MaxKs,
     geom : {<<1, 0>>, <<2, 1>>}, bn : BOOLEAN]

Latents ==
    {[t |-> Tensor(<<n, c, 1, 1>>, r), coef |-> <<0, 0>>] :
        n \in 1..MaxBatch, c \in 1..MaxNz, r \in {Reals, Unit}}

Images ==
    {[t |-> Tensor(<<n, c, s, s>>, Unit), coef |-> k] :
        n \in 1..MaxBatch, c \in Channels, s \in {64, 128},
        k \in (0..1) \X (0..1)}

NoGrid == [ok |-> FALSE, shape |-> <<>>, val |-> <<>>]

NoCall ==
    [executed |-> "none", y |-> NoTensor, grid |-> NoGrid, score |-> NoGrid]

Init ==
    /\ calls = 0
    /\ out = NoCall
    /\ \/ \E a \in GeneratorArgs :
             /\ args = a
             /\ self = Generator(a.im_size, a.ks, a.nz, a.ngf, a.nc, a.ngpu)
             /\ input \in Latents
       \/ \E a \in DiscriminatorArgs :
             /\ args = a
             /\ self = Discriminator(a.im_size, a.ks, a.ndf, a.nc, a.ngpu)
             /\ input \in Images
       \/ \E a \in DeconvBlockArgs :
             /\ args = a
             /\ self = DeconvBlock(a.n_in, a.n_out, a.ks, a.geom[1], a.geom[2], a.bn)
             /\ input \in Latents

\* y = netG(input)
GeneratorForward ==
    /\ self.kind = "Generator"
    /\ calls < MaxCalls
    /\ calls' = calls + 1
    /\ LET r == Generator_forward(self, input.t)
       IN  out' = [executed |-> r.executed, y |-> r.y,
                   grid |-> NoGrid, score |-> NoGrid]
    /\ UNCHANGED <<args, self, input>>

\* score = netD(input)
DiscriminatorForward ==
    /\ self.kind = "Discriminator"
    /\ calls < MaxCalls
    /\ calls' = calls + 1
    /\ LET r == Discriminator_forward(self, input.t, input.coef)
       IN  out' = [executed |-> r.executed, y |-> r.y,
                   grid |-> r.grid, score |-> r.score]
    /\ UNCHANGED <<args, self, input>>

\* y = block(input)
DeconvBlockForward ==
    /\ self.kind = "DeconvBlock"
    /\ calls < MaxCalls
    /\ calls' = calls + 1
    /\ out' = [executed |-> "block", y |-> DeconvBlock_forward(self, input.t),
               grid |-> NoGrid, score |-> NoGrid]
    /\ UNCHANGED <<args, self, input>>

Next == GeneratorForward \/ DiscriminatorForward \/ DeconvBlockForward

Spec == Init /\ [][Next]_vars

----------------------------------------------------------------------------
(* Vocabulary of the properties *)

IsGenerator == self.kind = "Generator"

IsDiscriminator == self.kind = "Discriminator"

IsDeconvBlock == self.kind = "DeconvBlock"

Called == calls > 0

Returned == Called /\ out.y.ok

Resolutions == {64, 128}

BatchSize == input.t.shape[1]

Ops(trace) == [i \in DOMAIN trace |-> trace[i].op]

\* the latent the generator's constructor arguments announce
LatentFits == input.t.shape = <<BatchSize, args.nz, 1, 1>>

\* the image the discriminator's constructor arguments announce
ImageFits ==
    /\ args.im_size \in Resolutions
    /\ args.nc = DefaultNc
    /\ input.t.shape = <<BatchSize, DefaultNc, args.im_size, args.im_size>>

----------------------------------------------------------------------------
(* C1 *)

\* C1 as stated: a Generator built for resolution R in {64, 128} with nc = 3
\* returns [N, 3, R, R] on a latent [N, nz, 1, 1], whatever the kernel size.
C1_AnyKernelSize ==
    (IsGenerator /\ Called /\ args.im_size \in Resolutions
        /\ args.nc = DefaultNc /\ LatentFits)
    => /\ out.y.ok
       /\ out.y.shape = <<BatchSize, DefaultNc, args.im_size, args.im_size>>

\* C1 amended: with nc = 3 and a latent [N, nz, 1, 1], the Generator built for
\* R in {64, 128} returns [N, 3, R, R] when ks = 4, and for no other ks.
C1_GeneratorShape ==
    (IsGenerator /\ Called /\ args.im_size \in Resolutions
        /\ args.nc = DefaultNc /\ LatentFits)
    => ((args.ks = 4) <=>
           /\ out.y.ok
           /\ out.y.shape = <<BatchSize, DefaultNc, args.im_size, args.im_size>>)

C1_Witness ==
    /\ IsGenerator /\ Called /\ LatentFits
    /\ args.ks = 4 /\ args.im_size = 128 /\ args.nc = DefaultNc
    /\ BatchSize = 2
    /\ out.y.shape = <<2, 3, 128, 128>>

----------------------------------------------------------------------------
(* C2 *)

----------------------------------------------------------------------------
(* C3 *)

RECURSIVE SumOver(_, _)
SumOver(val, S) ==
    IF S = {} THEN 0
    ELSE LET p == CHOOSE p \in S : TRUE
         IN  val[p] + SumOver(val, S \ {p})

\* the fraction f equals the mean of all entries of the grid g
IsMeanOfAll(f, g) ==
    f.num * Numel(g.shape) = SumOver(g.val, DOMAIN g.val) * f.den

----------------------------------------------------------------------------
(* C4 *)

InUnitInterval(t) == t.range \in {Unit, UnitNonNeg}

LastOf(seq) == seq[Len(seq)]

\* C4: every value of the tensor Generator.forward returns lies in [-1, 1]:
\* the last stage of the executed pipeline is tanh, applied to the nc-channel
\* output of the last transposed convolution, with no stage after it.
C4_OutputInUnitInterval ==
    /\ IsGenerator =>
          /\ LastOf(self.main64.layers) = Tanh
          /\ LastOf(self.main128.layers) = Tanh
    /\ (IsGenerator /\ Returned) =>
          LET tr == out.y.trace
          IN  /\ InUnitInterval(out.y)
              /\ tr[Len(tr)].op = "Tanh"
              /\ tr[Len(tr) - 1].op = "ConvTranspose2d"
              /\ tr[Len(tr) - 1].shape[2] = args.nc
              /\ out.y.shape[2] = args.nc

C4_Witness ==
    /\ IsGenerator /\ Returned
    /\ input.t.range = Reals
    /\ args.im_size = 128
    /\ out.y.range = Unit

----------------------------------------------------------------------------
(* C5 *)

HasNormalization(stage) ==
    \E i \in DOMAIN stage.layers : stage.layers[i].kind = "BatchNorm2d"

\* C5: in both Discriminator pipelines the first stage applies no
\* normalization, whatever im_size, ks, ndf, nc and ngpu: it is a convolution
\* followed directly by the leaky activation.
C5_FirstStageNoNorm ==
    IsDiscriminator =>
       /\ ~HasNormalization(self.main64.layers[1])
       /\ ~HasNormalization(self.main128.layers[1])
       /\ (Called /\ Len(out.y.trace) >= 3) =>
             Ops(SubSeq(out.y.trace, 1, 3)) = <<"Conv2d", "LeakyReLU", "Conv2d">>

C5_Witness ==
    /\ IsDiscriminator /\ Returned
    /\ args.ndf = 2 /\ args.ngpu = 2 /\ args.im_size = 128
    /\ Ops(SubSeq(out.y.trace, 1, 4))
          = <<"Conv2d", "LeakyReLU", "Conv2d", "BatchNorm2d">>

----------------------------------------------------------------------------
(* C6 *)

\* the convolutions of a pipeline, in execution order
RECURSIVE Convs(_)
Convs(mods) ==
    IF mods = <<>> THEN <<>>
    ELSE LET m == Head(mods)
         IN  (IF m.kind = "Sequential" THEN Convs(m.layers)
              ELSE IF m.kind = "DeconvBlock" THEN <<m.conv>>
              ELSE IF m.kind \in {"Conv2d", "ConvTranspose2d"} THEN <<m>>
              ELSE <<>>) \o Convs(Tail(mods))

\* the channel counts between the first and the last convolution of pipeline
\* p are those of pipeline q, each multiplied by width
ScalesInternalChannels(p, q, width) ==
    LET cp == Convs(p.layers)
        cq == Convs(q.layers)
    IN  /\ Len(cp) = Len(cq)
        /\ \A i \in 1..(Len(cp) - 1) :
              /\ cp[i].n_out = width * cq[i].n_out
              /\ cp[i + 1].n_in = width * cq[i].n_out

\* the two runs raise at the same layer or return results of the same shape,
\* with the same spatial size after every layer
SameSpatialSizes(y1, y2) ==
    /\ y1.ok = y2.ok
    /\ y1.shape = y2.shape
    /\ Len(y1.trace) = Len(y2.trace)
    /\ \A i \in DOMAIN y1.trace :
          /\ y1.trace[i].op = y2.trace[i].op
          /\ Len(y1.trace[i].shape) = Len(y2.trace[i].shape)
          /\ Len(y1.trace[i].shape) = 4 =>
                SubSeq(y1.trace[i].shape, 3, 4) = SubSeq(y2.trace[i].shape, 3, 4)

\* C6: every internal channel count is a fixed multiple of the base width
\* (ngf, ndf), so a change of the base width multiplies them all by the same
\* factor, and it changes neither the spatial size of any stage's output nor
\* the output shape of forward.
C6_BaseWidthScaling ==
    /\ IsGenerator =>
          \A w \in 1..MaxWidth :
             LET unit == Generator(args.im_size, args.ks, args.nz, 1, args.nc, args.ngpu)
                 other == Generator(args.im_size, args.ks, args.nz, w, args.nc, args.ngpu)
             IN  /\ ScalesInternalChannels(self.main64, unit.main64, args.ngf)
                 /\ ScalesInternalChannels(self.main128, unit.main128, args.ngf)
                 /\ Called =>
                       SameSpatialSizes(out.y, Generator_forward(other, input.t).y)
    /\ IsDiscriminator =>
          \A w \in 1..MaxWidth :
             LET unit == Discriminator(args.im_size, args.ks, 1, args.nc, args.ngpu)
                 other == Discriminator(args.im_size, args.ks, w, args.nc, args.ngpu)
             IN  /\ ScalesInternalChannels(self.main64, unit.main64, args.ndf)
                 /\ ScalesInternalChannels(self.main128, unit.main128, args.ndf)
                 /\ Called =>
                       SameSpatialSizes(out.y,
                           Discriminator_forward(other, input.t, input.coef).y)

C6_Witness ==
    /\ IsGenerator /\ Returned
    /\ args.ngf = 2 /\ args.im_size = 64 /\ args.ks = 4
    /\ Convs(self.main64.layers)[1].n_out = 16
    /\ out.y.shape = <<BatchSize, args.nc, 64, 64>>

----------------------------------------------------------------------------
(* C7 *)

\* the tensor after each module of a pipeline
RECURSIVE StageOutputs(_, _)
StageOutputs(mods, x) ==
    IF mods = <<>> THEN <<>>
    ELSE LET y == SequentialForward(<<Head(mods)>>, x)
         IN  <<y>> \o StageOutputs(Tail(mods), y)

ExecutedPipeline ==
    IF out.executed = "main64" THEN self.main64 ELSE self.main128

IsUpsampling(m) == m.kind \in {"DeconvBlock", "ConvTranspose2d"}

Doubles(x, y) == y.shape[3] = 2 * x.shape[3] /\ y.shape[4] = 2 * x.shape[4]

Halves(x, y) == 2 * y.shape[2] = x.shape[2]

\* C7 as stated: each upsampling stage of the executed pipeline doubles the
\* spatial resolution of its input and halves its channel depth; the chain
\* starts from a multiple of ngf and ends at 3 channels.
C7_EveryStageDoublesAndHalves ==
    (IsGenerator /\ Returned) =>
       LET mods == ExecutedPipeline.layers
           ys == <<input.t>> \o StageOutputs(mods, input.t)
       IN  /\ \A i \in DOMAIN mods :
                 IsUpsampling(mods[i]) =>
                    (Doubles(ys[i], ys[i + 1]) /\ Halves(ys[i], ys[i + 1]))
           /\ ys[2].shape[2] % args.ngf = 0
           /\ out.y.shape[2] = 3

\* C7 amended: with ks = 4 the first stage turns the 1x1 latent of nz channels
\* into a 4x4 map of 8*ngf (64px pipeline) or 16*ngf (128px pipeline)
\* channels; every later DeconvBlock stage doubles the spatial size and halves
\* the channel depth, down to ngf channels; the last transposed convolution
\* doubles the spatial size once more and maps the ngf channels to nc (3 by
\* default), which tanh leaves as they are.
C7_UpsamplingChain ==
    (IsGenerator /\ Returned /\ args.ks = 4) =>
       LET mods == ExecutedPipeline.layers
           ys == StageOutputs(mods, input.t)
           n == Len(mods)
       IN  /\ ys[1].shape
                = <<BatchSize,
                    args.ngf * (IF out.executed = "main64" THEN 8 ELSE 16), 4, 4>>
           /\ \A i \in 2..(n - 2) :
                 /\ mods[i].kind = "DeconvBlock"
                 /\ Doubles(ys[i - 1], ys[i])
                 /\ Halves(ys[i - 1], ys[i])
           /\ ys[n - 2].shape[2] = args.ngf
           /\ mods[n - 1].kind = "ConvTranspose2d"
           /\ Doubles(ys[n - 2], ys[n - 1])
           /\ ys[n - 1].shape[2] = args.nc
           /\ ys[n].shape = ys[n - 1].shape
           /\ ys[n] = out.y

C7_Witness ==
    /\ IsGenerator /\ Returned /\ args.ks = 4
    /\ args.ngf = 2 /\ args.im_size = 128 /\ args.nc = DefaultNc
    /\ StageOutputs(self.main128.layers, input.t)[3].shape
          = <<BatchSize, 8, 16, 16>>

----------------------------------------------------------------------------
(* C8 *)

\* C8: the normalize? flag decides whether a deconvolution stage normalizes:
\* a DeconvBlock built with bn=False returns the activation's output without
\* normalization, one built with bn=True applies deconvolution, activation,
\* normalization, in this order.
C8_BnFlagDecides ==
    (IsDeconvBlock /\ Returned) =>
       Ops(out.y.trace)
          = IF args.bn THEN <<"ConvTranspose2d", "ReLU", "BatchNorm2d">>
                       ELSE <<"ConvTranspose2d", "ReLU">>

----------------------------------------------------------------------------
(* C9 *)

IsPrefix(s, t) == Len(s) <= Len(t) /\ SubSeq(t, 1, Len(s)) = s

\* C9: each forward call of a Generator or Discriminator executes exactly one
\* of the two pipelines: main64 when the stored im_size is 64, main128 for
\* every other stored value; the constructor stores im_size as given, 64, 128
\* or not.
C9_PipelineSelection ==
    (IsGenerator \/ IsDiscriminator) =>
       /\ self.im_size = args.im_size
       /\ Called =>
             LET main == IF self.im_size = 64 THEN self.main64 ELSE self.main128
                 run == SequentialForward(main.layers, input.t)
             IN  /\ out.executed = IF self.im_size = 64 THEN "main64" ELSE "main128"
                 /\ IsPrefix(run.trace, out.y.trace)
                 /\ IsGenerator => out.y = run

C9_Witness ==
    /\ IsGenerator /\ Returned
    /\ self.im_size = 32
    /\ out.executed = "main128"
    /\ out.y.shape[3] = 128

----------------------------------------------------------------------------
(* C10 *)

BothPipelinesBuilt ==
    /\ IsGenerator =>
          /\ Len(Convs(self.main64.layers)) = 5
          /\ Len(Convs(self.main128.layers)) = 6
    /\ IsDiscriminator =>
          /\ Len(Convs(self.main64.layers)) = 5
          /\ Len(Convs(self.main128.layers)) = 6

\* C10: both pipelines are built at construction whatever the resolution, and
\* no forward call changes the stored im_size or the stages of either
\* pipeline, so every later call selects the pipeline the first one selected.
C10_PipelinesFixed ==
    /\ []BothPipelinesBuilt
    /\ [][/\ self' = self
          /\ Called => out'.executed = out.executed]_vars

C10_Witness ==
    /\ IsDiscriminator /\ calls = MaxCalls
    /\ self.im_size = 64
    /\ out.executed = "main64"
    /\ Len(self.main128.layers) = 6

====
